---------------------------- MODULE Spec2Model ----------------------------
(***************************************************************************)
(* A model of the SDS prototype: the usage evaluator and tier classifier   *)
(* (sds_data_classification.py and its two copies), the storage resource   *)
(* manager (sds_scalability_test.py) and the retrieval backend with its    *)
(* admission counter (sds_retrieval_performance_test.py).                  *)
(*                                                                         *)
(* The three components share no state in the source.  Each has its own    *)
(* specification (SpecClassify, SpecStore, SpecStoreConc, SpecRetrieve);   *)
(* the variables of the other components stay at their initial values.     *)
(***************************************************************************)
EXTENDS Integers, Naturals, Sequences, FiniteSets, TLC

VARIABLES
    \* ---- classification ----
    artifact,            \* the Artifact under classification (record)
    now,                 \* the ambient clock, in ticks (datetime.now / time.time)
    usage_frequency,     \* result of a get_usage_frequency() call made at `now`
    cls_usage,           \* local `usage` of a classify_and_assign() call made at `now`
    assigned_tier,       \* result of that classify_and_assign() call
    first_tier,          \* result of the first classify_and_assign() call
    first_age,           \* how long after the last access that call was made
    \* ---- storage resource manager ----
    config,              \* which initial capacities __init__ was given
    capacities,          \* self.capacities : tier -> dyadic rational
    usage,               \* self.usage : tier -> dyadic rational
    ret,                 \* return value of the last add_artifact call ("True", "False")
    adjusted,            \* number of adjust_resources calls made by the last call
    last_tier,           \* tier argument of the last add_artifact call
    last_type,           \* artifact.type of the last add_artifact call
    \* ---- storage resource manager, concurrent producers ----
    ppc,                 \* producer -> position inside add_artifact
    plocal,              \* producer -> locals of its add_artifact call
    committed,           \* tier -> sum of the sizes of the calls that returned True
    \* ---- retrieval backend ----
    current_requests,    \* self.current_requests
    pc,                  \* task -> position inside retrieve_artifact
    increments,          \* task -> number of increments it performed
    decrements,          \* task -> number of decrements it performed
    entry_requests,      \* task -> current_requests when its call began
    others_net,          \* task -> net change other calls made during its call
    checked,             \* tasks in the order they ran the admission check
    early                \* a call ended while a submitted task had not yet started

clsVars   == <<artifact, now, usage_frequency, cls_usage, assigned_tier,
              first_tier, first_age>>
storeVars == <<config, capacities, usage, ret, adjusted, last_tier, last_type>>
concVars  == <<ppc, plocal, committed>>
retrVars  == <<current_requests, pc, increments, decrements,
               entry_requests, others_net, checked, early>>
vars      == <<clsVars, storeVars, concVars, retrVars>>

-----------------------------------------------------------------------------
(* Enumerations (the .value strings shortened).                            *)

UsageFrequency == {"High", "Medium", "Low"}
Importance     == {"Critical", "Standard", "Low"}
StorageTier    == {"Hot", "Warm", "Cold"}
ArtifactType   == {"Photograph", "Document", "Video"}

\* The three source files each carry a copy of Artifact/SDSClassifier.
Copies == {"classification", "retrieval", "scalability"}

-----------------------------------------------------------------------------
(* Bounds of the classification model.                                     *)

TicksPerDay == 2      \* clock resolution: one tick is half a day
MaxDays     == 61     \* the clock runs from 0 to MaxDays days
NegAccess   == 2      \* access_count is drawn from -NegAccess ..
MaxAccess   == 15     \* .. MaxAccess

MinAccess == 0 - NegAccess

MaxTicks == MaxDays * TicksPerDay

-----------------------------------------------------------------------------
(* Usage evaluator.                                                        *)

\* Mutant: a started day counts as a whole day (rounding up).
timedelta_days_ceil(t, last) == (t - last + TicksPerDay - 1) \div TicksPerDay

\* timedelta.days: the whole days of the difference, rounded towards
\* minus infinity (timedelta normalises to days + a non-negative rest).
timedelta_days(t, last) == (t - last) \div TicksPerDay

\* Mutant: the boundary of High moved from > 10 to >= 10.
by_access_count_ge10(access_count) ==
    IF access_count >= 10 THEN "High"
    ELSE IF access_count >= 1 THEN "Medium"
    ELSE "Low"

\* The count rules shared by the three copies (lines 42-47 / 45-50).
by_access_count(access_count) ==
    IF access_count > 10 THEN "High"
    ELSE IF access_count >= 1 THEN "Medium"
    ELSE "Low"

\* sds_data_classification.py: days_since_access is timedelta.days (an int).
get_usage_frequency_classification(a, t) ==
    LET days_since_access == timedelta_days(t, a.last_accessed)
    IN  IF days_since_access > 30 THEN "Low" ELSE by_access_count(a.access_count)

\* sds_scalability_test.py: the same, verbatim.
get_usage_frequency_scalability(a, t) ==
    LET days_since_access == timedelta_days(t, a.last_accessed)
    IN  IF days_since_access > 30 THEN "Low" ELSE by_access_count(a.access_count)

\* sds_retrieval_performance_test.py: days_since_access is the float
\* (time.time() - last_accessed) / (24 * 3600); it exceeds 30 exactly when
\* the elapsed ticks exceed 30 days' worth of ticks.
get_usage_frequency_retrieval(a, t) ==
    IF (t - a.last_accessed) > 30 * TicksPerDay THEN "Low"
    ELSE by_access_count(a.access_count)

get_usage_frequency(a, t) ==
    CASE a.copy = "classification" -> get_usage_frequency_classification(a, t)
      [] a.copy = "scalability"    -> get_usage_frequency_scalability(a, t)
      [] a.copy = "retrieval"      -> get_usage_frequency_retrieval(a, t)

-----------------------------------------------------------------------------
(* Tier classifier.                                                        *)

\* Mutant: the first rule with `and` for `or`.
classify_rules_and(importance, u) ==
    IF importance = "Critical" /\ u = "High" THEN "Hot"
    ELSE IF u = "Medium" \/ importance = "Standard" THEN "Warm"
    ELSE "Cold"

\* Mutant: the Warm rule looks at the usage only (no `or importance ==
\* STANDARD`).
classify_rules_medium_only(importance, u) ==
    IF importance = "Critical" \/ u = "High" THEN "Hot"
    ELSE IF u = "Medium" THEN "Warm"
    ELSE "Cold"

classify_rules(importance, u) ==
    IF importance = "Critical" \/ u = "High" THEN "Hot"
    ELSE IF u = "Medium" \/ importance = "Standard" THEN "Warm"
    ELSE "Cold"

classify_and_assign(a, t) == classify_rules(a.importance, get_usage_frequency(a, t))

-----------------------------------------------------------------------------
(* Initial values of the components.                                       *)

Artifacts ==
    [access_count : MinAccess .. MaxAccess, last_accessed : {0},
     importance : Importance, copy : Copies]

ClsIdle ==
    /\ artifact = [access_count |-> 0, last_accessed |-> 0,
                   importance |-> "Low", copy |-> "classification"]
    /\ now = 0
    /\ usage_frequency = "none"
    /\ cls_usage = "none"
    /\ assigned_tier = "none"
    /\ first_tier = "none"
    /\ first_age = "none"

ClsInit ==
    /\ artifact \in Artifacts
    /\ now \in 0 .. MaxTicks
    /\ usage_frequency = "none"
    /\ cls_usage = "none"
    /\ assigned_tier = "none"
    /\ first_tier = "none"
    /\ first_age = "none"

-----------------------------------------------------------------------------
(* Classification actions.                                                 *)

\* The age of an access, as far as the recency window can tell ages apart:
\* at most 30 days, within the 31st day, or 31 days and more.
AgeOf(elapsed) ==
    IF elapsed <= 30 * TicksPerDay THEN "within30d"
    ELSE IF elapsed < 31 * TicksPerDay THEN "in31stday"
    ELSE "beyond31d"

\* A direct call artifact.get_usage_frequency() (process_artifacts line 72).
GetUsageFrequency ==
    /\ usage_frequency' = get_usage_frequency(artifact, now)
    /\ UNCHANGED <<artifact, now, cls_usage, assigned_tier, first_tier, first_age>>
    /\ UNCHANGED <<storeVars, concVars, retrVars>>

\* A call classifier.classify_and_assign(artifact).
ClassifyAndAssign ==
    /\ cls_usage' = get_usage_frequency(artifact, now)
    /\ assigned_tier' = classify_and_assign(artifact, now)
    /\ first_tier' = IF first_tier = "none" THEN assigned_tier' ELSE first_tier
    /\ first_age' = IF first_tier = "none"
                    THEN AgeOf(now - artifact.last_accessed)
                    ELSE first_age
    /\ UNCHANGED <<artifact, now, usage_frequency>>
    /\ UNCHANGED <<storeVars, concVars, retrVars>>

\* Time passes between calls: what was returned at the earlier clock
\* reading is no longer the result of a call made at `now`.
Tick ==
    /\ now < MaxTicks
    /\ now' = now + 1
    /\ usage_frequency' = "none"
    /\ cls_usage' = "none"
    /\ assigned_tier' = "none"
    /\ UNCHANGED <<artifact, first_tier, first_age>>
    /\ UNCHANGED <<storeVars, concVars, retrVars>>

-----------------------------------------------------------------------------
(* Numbers of the storage resource manager.                                *)
(*                                                                         *)
(* The sizes are 1, 0.5 and 5, so a usage is always a whole number of      *)
(* half units: self.usage and the sizes are held in half units.  A         *)
(* capacity is multiplied by 1.5 at every scaling, so it is a dyadic       *)
(* rational n / 2^e units, held as [n, e] and kept normalised (e = 0 or n  *)
(* odd).  Binary floating point holds all these values exactly as long as  *)
(* n < 2^53, far beyond the bounds explored here, and within them          *)
(* capacity * 0.8 compares with usage + size as the exact product does.    *)

RECURSIVE Pow2(_)
Pow2(k) == IF k = 0 THEN 1 ELSE 2 * Pow2(k - 1)

RECURSIVE Norm(_, _)
Norm(n, e) == IF e > 0 /\ n % 2 = 0 THEN Norm(n \div 2, e - 1) ELSE [n |-> n, e |-> e]

\* the capacity of k whole units
Units(k) == [n |-> k, e |-> 0]

DyAdd(a, b) ==
    LET e == IF a.e > b.e THEN a.e ELSE b.e
    IN  Norm(a.n * Pow2(e - a.e) + b.n * Pow2(e - b.e), e)

\* a * 0.5
DyHalf(a) == Norm(a.n, a.e + 1)

\* a <= b, for capacities
DyLe(a, b) == a.n * Pow2(b.e) <= b.n * Pow2(a.e)

-----------------------------------------------------------------------------
(* Storage resource manager: configuration.                                *)

\* self.artifact_sizes (1, 0.5 and 5 units), in half units
artifact_sizes(type) ==
    CASE type = "Photograph" -> 2
      [] type = "Document"   -> 1
      [] type = "Video"      -> 10

\* self.capacities as __init__ sets it ("shipped"), and a configuration with
\* small tiers, in which an artifact can be larger than a tier.
Configs == {"shipped", "small"}

initial_capacities(cfg) ==
    IF cfg = "shipped"
    THEN [t \in StorageTier |->
            CASE t = "Hot" -> Units(100) [] t = "Warm" -> Units(500)
              [] t = "Cold" -> Units(1000)]
    ELSE [t \in StorageTier |->
            CASE t = "Hot" -> Units(2) [] t = "Warm" -> Units(4)
              [] t = "Cold" -> Units(8)]

initial_usage == [t \in StorageTier |-> 0]

\* Exploration bounds: a call is explored while usage + size stays within
\* this many units.  The shipped Hot tier is followed past its first
\* scalings, the shipped Warm and Cold tiers (which behave as Hot does, at
\* five and ten times the usage) for a few calls, and the small tiers until
\* each has scaled several times.
MaxHotUnits   == 125
MaxOtherUnits == 2
MaxSmallUnits == 6

MaxUnits(cfg, tier) ==
    IF cfg = "shipped"
    THEN IF tier = "Hot" THEN MaxHotUnits ELSE MaxOtherUnits
    ELSE MaxSmallUnits

Explored(cfg, us, type, tier) == us[tier] + artifact_sizes(type) <= 2 * MaxUnits(cfg, tier)

-----------------------------------------------------------------------------
(* Storage resource manager: add_artifact and adjust_resources.            *)

\* Mutant: the threshold test admits equality (>= instead of >).
over_threshold_ge(u, size, cap) == 5 * (u + size) * Pow2(cap.e) >= 8 * cap.n

\* line 89: self.usage[tier] + size > self.capacities[tier] * 0.8
\* (u + size) / 2 > (4 / 5) * n / 2^e
over_threshold(u, size, cap) == 5 * (u + size) * Pow2(cap.e) > 8 * cap.n

\* Mutant: the admission test forgets the size of the new artifact.
fits_ignoring_size(u, size, cap) == u * Pow2(cap.e) <= 2 * cap.n

\* line 91: self.usage[tier] + size <= self.capacities[tier]
fits(u, size, cap) == (u + size) * Pow2(cap.e) <= 2 * cap.n

\* Mutant: the increase is computed but never added.
scaled_capacity_unchanged(cap) == cap

\* Mutant: the increase is the whole capacity (doubling) instead of half.
scaled_capacity_double(cap) == DyAdd(cap, cap)

\* lines 98-99: increase = capacity * 0.5; capacity += increase
scaled_capacity(cap) == DyAdd(cap, DyHalf(cap))

\* Mutant: the scaling is applied to every tier instead of the one named.
adjust_resources_all(caps, tier) == [t \in DOMAIN caps |-> scaled_capacity(caps[t])]

adjust_resources(caps, tier) == [caps EXCEPT ![tier] = scaled_capacity(caps[tier])]

\* Mutant: the capacity is scaled only when the artifact would not fit.
scale_only_when_full(caps, us, size, tier) ==
    IF over_threshold(us[tier], size, caps[tier])
          /\ ~fits(us[tier], size, caps[tier])
    THEN adjust_resources(caps, tier)
    ELSE caps

\* The capacities after the threshold test and the scaling it may trigger.
capacities_after_threshold(caps, us, size, tier) ==
    IF over_threshold(us[tier], size, caps[tier])
    THEN adjust_resources(caps, tier)
    ELSE caps

\* The whole of add_artifact as one sequential call: the new capacities,
\* the new usage, the return value and the number of adjust_resources calls.
add_artifact(caps, us, type, tier) ==
    LET size  == artifact_sizes(type)
        caps1 == capacities_after_threshold(caps, us, size, tier)
        ok    == fits(us[tier], size, caps1[tier])
    IN  [capacities |-> caps1,
         usage      |-> IF ok THEN [us EXCEPT ![tier] = us[tier] + size] ELSE us,
         result     |-> ok,
         adjusted   |-> IF over_threshold(us[tier], size, caps[tier]) THEN 1 ELSE 0]

StoreIdle ==
    /\ config = "shipped"
    /\ capacities = initial_capacities("shipped")
    /\ usage = initial_usage
    /\ ret = "none"
    /\ adjusted = 0
    /\ last_tier = "none"
    /\ last_type = "none"

StoreInit ==
    /\ config \in Configs
    /\ capacities = initial_capacities(config)
    /\ usage = initial_usage
    /\ ret = "none"
    /\ adjusted = 0
    /\ last_tier = "none"
    /\ last_type = "none"

\* One call resource_manager.add_artifact(artifact, tier), run to completion.
AddArtifact ==
    \E type \in ArtifactType, tier \in StorageTier :
        LET r == add_artifact(capacities, usage, type, tier)
        IN  /\ Explored(config, usage, type, tier)
            /\ capacities' = r.capacities
            /\ usage' = r.usage
            /\ ret' = IF r.result THEN "True" ELSE "False"
            /\ adjusted' = r.adjusted
            /\ last_tier' = tier
            /\ last_type' = type
            /\ UNCHANGED config
            /\ UNCHANGED <<clsVars, concVars, retrVars>>

-----------------------------------------------------------------------------
(* Retrieval backend.                                                      *)
(*                                                                         *)
(* retrieve_artifact is a coroutine run by the asyncio event loop: one     *)
(* thread, and a task is left only at an await that suspends.  The lock    *)
(* is an asyncio.Lock whose body holds no await, so it is free whenever a  *)
(* task runs, `async with self.lock` never suspends, and the only          *)
(* suspension point is `await asyncio.sleep(latency)`.  A step of a task   *)
(* is therefore: from its start to the sleep (or to the exception that     *)
(* ends it), and from the end of the sleep to its return.                  *)

\* self.max_concurrent_requests is 1000 in the source; the model scales it
\* down to MaxConcurrent and submits one task more than the limit.
MaxConcurrent == 2

max_concurrent_requests == MaxConcurrent

NumTasks == MaxConcurrent + 1

Tasks == 1 .. NumTasks

\* The keys of self.latencies, and a tier argument that is not among them.
latencies_keys == StorageTier

TierArgs == StorageTier \cup {"Unknown"}

\* Mutant: the limit test with > for >=.
admits_off_by_one(cur) == ~(cur > max_concurrent_requests)

\* Mutant: no limit test.
admits_always(cur) == TRUE

\* line 80, negated: the call is admitted
admits(cur) == ~(cur >= max_concurrent_requests)

\* Mutant: the decrement after the sleep instead of in a finally block.
finally_on_return_only(cur, how) == IF how = "return" THEN cur - 1 ELSE cur

\* Mutant: the finally block resets the counter instead of decrementing it.
after_finally_reset(cur, how) == 0

\* Mutant: the finally block decrements twice.
after_finally_twice(cur, how) == cur - 2

\* lines 89-91: the finally block, run however the try block is left
\* ("return", "KeyError" or "CancelledError").
after_finally(cur, how) == cur - 1

\* Mutant: the counter is incremented before the limit test.
retrieve_increment_first(cur, tier) ==
    IF ~admits(cur)
    THEN [pc |-> "overloaded", cur |-> cur + 1, inc |-> 1, dec |-> 0]
    ELSE IF tier \notin latencies_keys
    THEN [pc |-> "keyerror", cur |-> after_finally(cur + 1, "KeyError"),
          inc |-> 1, dec |-> (cur + 1) - after_finally(cur + 1, "KeyError")]
    ELSE [pc |-> "sleeping", cur |-> cur + 1, inc |-> 1, dec |-> 0]

\* Lines 79-87, from the start of the coroutine to its first suspension:
\* where the task is afterwards and what it did to the counter.
retrieve_until_sleep(cur, tier) ==
    IF ~admits(cur)
    THEN [pc |-> "overloaded", cur |-> cur, inc |-> 0, dec |-> 0]
    ELSE IF tier \notin latencies_keys
    THEN [pc |-> "keyerror", cur |-> after_finally(cur + 1, "KeyError"),
          inc |-> 1, dec |-> (cur + 1) - after_finally(cur + 1, "KeyError")]
    ELSE [pc |-> "sleeping", cur |-> cur + 1, inc |-> 1, dec |-> 0]

Finished == {"returned", "overloaded", "keyerror", "cancelled"}

RetrIdle ==
    /\ current_requests = 0
    /\ pc = [t \in Tasks |-> "created"]
    /\ increments = [t \in Tasks |-> 0]
    /\ decrements = [t \in Tasks |-> 0]
    /\ entry_requests = [t \in Tasks |-> 0]
    /\ others_net = [t \in Tasks |-> 0]
    /\ checked = <<>>
    /\ early = FALSE

RetrInit == RetrIdle

\* Mutant: the sleep is inside the `async with self.lock` block, so a
\* suspended retrieval keeps the lock.
lock_holders_sleeping(p) == {u \in Tasks : p[u] = "sleeping"}

\* The tasks that hold self.lock while they are suspended.  The two
\* `async with self.lock` blocks (lines 79-82 and 90-91) contain no await:
\* the lock is released on line 82, before the sleep of line 87.
lock_holders(p) == {}

\* lines 79 and 90: `async with self.lock` is entered without waiting when
\* no other task holds the lock.
lock_acquired(t) == lock_holders(pc) \ {t} = {}

\* Some submitted task has not yet run its first step.
SomeNotStarted(p) == \E u \in Tasks : p[u] = "created"

\* What the calls in progress other than t have seen other calls do to the
\* counter, after a step of t that changed it by d.
seen_by_others(t, d) ==
    [u \in Tasks |-> IF u # t /\ pc[u] = "sleeping"
                     THEN others_net[u] + d
                     ELSE others_net[u]]

\* The event loop runs the first step of task t: admission check, increment,
\* latency lookup, then the sleep; or the exception that ends the call.
Start(t) ==
    /\ pc[t] = "created"
    /\ lock_acquired(t)
    /\ \E tier \in TierArgs :
         LET r == retrieve_until_sleep(current_requests, tier)
         IN  /\ pc' = [pc EXCEPT ![t] = r.pc]
             /\ current_requests' = r.cur
             /\ increments' = [increments EXCEPT ![t] = r.inc]
             /\ decrements' = [decrements EXCEPT ![t] = r.dec]
             /\ early' = (early \/ (r.pc = "keyerror" /\ SomeNotStarted(pc')))
    /\ entry_requests' = [entry_requests EXCEPT ![t] = current_requests]
    /\ others_net' = seen_by_others(t, current_requests' - current_requests)
    /\ checked' = Append(checked, t)
    /\ UNCHANGED <<clsVars, storeVars, concVars>>

\* The sleep of task t is over: return latency, through the finally block.
Wake(t) ==
    /\ pc[t] = "sleeping"
    /\ lock_acquired(t)
    /\ pc' = [pc EXCEPT ![t] = "returned"]
    /\ current_requests' = after_finally(current_requests, "return")
    /\ decrements' = [decrements EXCEPT ![t] = decrements[t] + (current_requests - current_requests')]
    /\ early' = (early \/ SomeNotStarted(pc))
    /\ others_net' = seen_by_others(t, current_requests' - current_requests)
    /\ UNCHANGED <<increments, entry_requests, checked>>
    /\ UNCHANGED <<clsVars, storeVars, concVars>>

\* The caller cancels task t during its sleep: CancelledError is raised at
\* the await and leaves through the finally block.
Cancel(t) ==
    /\ pc[t] = "sleeping"
    /\ lock_acquired(t)
    /\ pc' = [pc EXCEPT ![t] = "cancelled"]
    /\ current_requests' = after_finally(current_requests, "CancelledError")
    /\ decrements' = [decrements EXCEPT ![t] = decrements[t] + (current_requests - current_requests')]
    /\ early' = (early \/ SomeNotStarted(pc))
    /\ others_net' = seen_by_others(t, current_requests' - current_requests)
    /\ UNCHANGED <<increments, entry_requests, checked>>
    /\ UNCHANGED <<clsVars, storeVars, concVars>>

-----------------------------------------------------------------------------
(* Storage resource manager under concurrent producers.                    *)
(*                                                                         *)
(* StorageResourceManager has no lock.  When several threads call          *)
(* add_artifact, a thread switch can fall between any two of its reads     *)
(* and writes of self.usage and self.capacities (`d[k] += v` is a read, an *)
(* addition and a store).  Each producer steps through the lines of        *)
(* add_artifact and adjust_resources; its locals are in plocal.            *)

NumProducers        == 2
MaxCallsPerProducer == 2

Producers == 1 .. NumProducers

NoLocals == [type |-> "none", tier |-> "none", size |-> 0,
             increase |-> Units(0), cap_read |-> Units(0), usage_read |-> 0,
             calls |-> 0]

ConcIdle ==
    /\ ppc = [p \in Producers |-> "idle"]
    /\ plocal = [p \in Producers |-> NoLocals]
    /\ committed = [t \in StorageTier |-> 0]

\* line 88: the call begins, size = self.artifact_sizes[artifact.type]
PBegin(p) ==
    /\ ppc[p] = "idle"
    /\ plocal[p].calls < MaxCallsPerProducer
    /\ \E type \in ArtifactType, tier \in StorageTier :
         plocal' = [plocal EXCEPT ![p] =
                      [type |-> type, tier |-> tier, size |-> artifact_sizes(type),
                       increase |-> Units(0), cap_read |-> Units(0), usage_read |-> 0,
                       calls |-> @.calls + 1]]
    /\ ppc' = [ppc EXCEPT ![p] = "l89"]
    /\ UNCHANGED <<committed, storeVars, clsVars, retrVars>>

\* line 89: the threshold test
PThreshold(p) ==
    /\ ppc[p] = "l89"
    /\ LET l == plocal[p]
       IN  ppc' = [ppc EXCEPT ![p] =
                     IF over_threshold(usage[l.tier], l.size, capacities[l.tier])
                     THEN "l98" ELSE "l91"]
    /\ UNCHANGED <<plocal, committed, storeVars, clsVars, retrVars>>

\* line 98: increase = self.capacities[tier] * 0.5
PIncrease(p) ==
    /\ ppc[p] = "l98"
    /\ plocal' = [plocal EXCEPT ![p].increase = DyHalf(capacities[plocal[p].tier])]
    /\ ppc' = [ppc EXCEPT ![p] = "l99r"]
    /\ UNCHANGED <<committed, storeVars, clsVars, retrVars>>

\* line 99, the read of self.capacities[tier]
PCapRead(p) ==
    /\ ppc[p] = "l99r"
    /\ plocal' = [plocal EXCEPT ![p].cap_read = capacities[plocal[p].tier]]
    /\ ppc' = [ppc EXCEPT ![p] = "l99w"]
    /\ UNCHANGED <<committed, storeVars, clsVars, retrVars>>

\* line 99, the store of the sum
PCapWrite(p) ==
    /\ ppc[p] = "l99w"
    /\ capacities' = [capacities EXCEPT ![plocal[p].tier] =
                        DyAdd(plocal[p].cap_read, plocal[p].increase)]
    /\ ppc' = [ppc EXCEPT ![p] = "l91"]
    /\ UNCHANGED <<plocal, committed, config, usage, ret, adjusted, last_tier, last_type>>
    /\ UNCHANGED <<clsVars, retrVars>>

\* line 91: the admission test; line 94: return False
PAdmit(p) ==
    /\ ppc[p] = "l91"
    /\ LET l == plocal[p]
       IN  IF fits(usage[l.tier], l.size, capacities[l.tier])
           THEN /\ ppc' = [ppc EXCEPT ![p] = "l92r"]
                /\ UNCHANGED <<ret, last_tier, last_type>>
           ELSE /\ ppc' = [ppc EXCEPT ![p] = "idle"]
                /\ ret' = "False"
                /\ last_tier' = l.tier
                /\ last_type' = l.type
    /\ UNCHANGED <<plocal, committed, config, capacities, usage, adjusted>>
    /\ UNCHANGED <<clsVars, retrVars>>

\* line 92, the read of self.usage[tier]
PUsageRead(p) ==
    /\ ppc[p] = "l92r"
    /\ plocal' = [plocal EXCEPT ![p].usage_read = usage[plocal[p].tier]]
    /\ ppc' = [ppc EXCEPT ![p] = "l92w"]
    /\ UNCHANGED <<committed, storeVars, clsVars, retrVars>>

\* line 92, the store of the sum; line 93: return True
PUsageWrite(p) ==
    /\ ppc[p] = "l92w"
    /\ LET l == plocal[p]
       IN  /\ usage' = [usage EXCEPT ![l.tier] = l.usage_read + l.size]
           /\ committed' = [committed EXCEPT ![l.tier] = @ + l.size]
           /\ last_tier' = l.tier
           /\ last_type' = l.type
    /\ ret' = "True"
    /\ ppc' = [ppc EXCEPT ![p] = "idle"]
    /\ UNCHANGED <<plocal, config, capacities, adjusted>>
    /\ UNCHANGED <<clsVars, retrVars>>

-----------------------------------------------------------------------------
(* Specifications.  The components share no state, so each is checked on   *)
(* its own, the others at rest.                                            *)

ClsNext == GetUsageFrequency \/ ClassifyAndAssign \/ Tick

InitClassify == ClsInit /\ StoreIdle /\ ConcIdle /\ RetrIdle

SpecClassify == InitClassify /\ [][ClsNext]_vars

InitStore == ClsIdle /\ StoreInit /\ ConcIdle /\ RetrIdle

SpecStore == InitStore /\ [][AddArtifact]_vars

ConcNext ==
    \E p \in Producers :
        \/ PBegin(p) \/ PThreshold(p) \/ PIncrease(p) \/ PCapRead(p)
        \/ PCapWrite(p) \/ PAdmit(p) \/ PUsageRead(p) \/ PUsageWrite(p)

SpecStoreConc == InitStore /\ [][ConcNext]_vars

RetrNext == \E t \in Tasks : Start(t) \/ Wake(t) \/ Cancel(t)

InitRetrieve == ClsIdle /\ StoreIdle /\ ConcIdle /\ RetrInit

SpecRetrieve == InitRetrieve /\ [][RetrNext]_vars

\* The event loop runs every task that is ready, and every sleep ends.
SpecRetrieveFair ==
    /\ SpecRetrieve
    /\ \A t \in Tasks : WF_vars(Start(t)) /\ WF_vars(Wake(t) \/ Cancel(t))

Init == ClsInit /\ StoreInit /\ ConcIdle /\ RetrInit

Next == ClsNext \/ AddArtifact \/ ConcNext \/ RetrNext

Spec == Init /\ [][Next]_vars

-----------------------------------------------------------------------------
(* Claims.                                                                 *)

\* usage[tier] <= capacities[tier]
WithinCapacity(tier) == usage[tier] * Pow2(capacities[tier].e) <= 2 * capacities[tier].n

\* C1: after any sequence of add_artifact calls, with any artifact types and
\* target tiers, every tier has usage[tier] <= capacities[tier] in every
\* state between calls.  (SpecStore)
C1_UsageWithinCapacity == \A tier \in StorageTier : WithinCapacity(tier)

\* C1 witness: a call that scaled its tier and then committed.
C1_Witness ==
    /\ ret = "True"
    /\ adjusted = 1
    /\ last_tier \in StorageTier
    /\ usage[last_tier] > 0

\* C2: in every reachable state of any interleaving of retrieve_artifact
\* calls, 0 <= current_requests <= max_concurrent_requests.  (SpecRetrieve)
C2_AdmissionBound ==
    /\ 0 <= current_requests
    /\ current_requests <= max_concurrent_requests

\* C2 witness: the limit is reached and a further call has been turned away.
C2_Witness ==
    /\ current_requests = max_concurrent_requests
    /\ \E t \in Tasks : pc[t] = "overloaded"

\* C3: every admitted retrieval is followed by exactly one decrement on every
\* exit path (return, fault on the latency lookup, cancellation during the
\* sleep): a task never decrements more than it incremented, a finished
\* task has decremented exactly what it incremented, an admitted task
\* eventually decrements, and the counter is 0 whenever no retrieval is
\* running.  (SpecRetrieveFair)
C3_PairedRelease ==
    /\ [](\A t \in Tasks : decrements[t] <= increments[t] /\ increments[t] <= 1)
    /\ [](\A t \in Tasks : pc[t] \in Finished => decrements[t] = increments[t])
    /\ []((\A t \in Tasks : pc[t] # "sleeping") => current_requests = 0)
    /\ \A t \in Tasks : (increments[t] = 1) ~> (decrements[t] = 1)

\* C3 witness: one call returned, one faulted and one was cancelled, each
\* admitted and released, and the counter is back at 0.
C3_Witness ==
    /\ \E t \in Tasks : pc[t] = "returned" /\ increments[t] = 1 /\ decrements[t] = 1
    /\ \E t \in Tasks : pc[t] = "keyerror" /\ increments[t] = 1 /\ decrements[t] = 1
    /\ \E t \in Tasks : pc[t] = "cancelled" /\ increments[t] = 1 /\ decrements[t] = 1
    /\ current_requests = 0

\* C4: a call is rejected as overloaded exactly when, at its admission
\* check, current_requests >= max_concurrent_requests; the rejection comes
\* in the very step of the check (no waiting, queueing or retry) and leaves
\* current_requests unchanged: the call neither increments nor decrements.
\* (SpecRetrieve)
C4_RejectedExactlyWhenFull ==
    [][\A t \in Tasks :
          /\ (pc[t] = "created" /\ pc'[t] # "created") =>
                /\ (pc'[t] = "overloaded") <=> (current_requests >= max_concurrent_requests)
                /\ (pc'[t] = "overloaded") =>
                      /\ current_requests' = current_requests
                      /\ increments'[t] = 0
                      /\ decrements'[t] = 0
          /\ (pc'[t] = "overloaded") => pc[t] \in {"created", "overloaded"}
          /\ (pc[t] = "overloaded") => pc'[t] = "overloaded"]_vars

\* C4 witness: a call rejected at the limit, the counter still at the limit.
C4_Witness ==
    \E t \in Tasks :
        /\ pc[t] = "overloaded"
        /\ entry_requests[t] = max_concurrent_requests
        /\ current_requests = entry_requests[t]
        /\ increments[t] = 0

\* The tasks in submission order.
SubmissionOrder == [i \in 1 .. NumTasks |-> i]

\* C5: from an idle backend, max_concurrent_requests + 1 retrievals admitted
\* in submission order, none ending before the last one has run its
\* admission check: exactly the last one is rejected as overloaded and the
\* others all return a latency.  (SpecRetrieve)
C5_ScenarioE ==
    ( /\ checked = SubmissionOrder
      /\ ~early
      /\ \A t \in Tasks : pc[t] \in Finished \ {"cancelled"} )
    => /\ pc[NumTasks] = "overloaded"
       /\ \A t \in Tasks \ {NumTasks} : pc[t] = "returned"
       /\ Cardinality({t \in Tasks : pc[t] = "overloaded"}) = 1
       /\ Cardinality({t \in Tasks : pc[t] = "returned"}) = max_concurrent_requests

\* C5 witness: the scenario has run to its end.
C5_Witness ==
    /\ checked = SubmissionOrder
    /\ ~early
    /\ pc[NumTasks] = "overloaded"
    /\ \A t \in Tasks \ {NumTasks} : pc[t] = "returned"

\* C6: under concurrent add_artifact calls no update of usage[tier] is lost
\* (once every call has returned, usage equals the sum of the sizes of the
\* calls that returned True) and usage[tier] never exceeds capacities[tier].
\* (SpecStoreConc; the code takes no lock and violates both.)
C6_Linearizable ==
    /\ \A tier \in StorageTier : WithinCapacity(tier)
    /\ (\A p \in Producers : ppc[p] = "idle") => usage = committed

\* C7: classify_and_assign returns Hot if importance is Critical or usage is
\* High, otherwise Warm if usage is Medium or importance is Standard,
\* otherwise Cold; so Critical gives Hot, High gives Hot, and Standard
\* never gives Cold.  (SpecClassify)
C7_DecisionRule ==
    assigned_tier # "none" =>
        /\ (artifact.importance = "Critical" \/ cls_usage = "High")
              => assigned_tier = "Hot"
        /\ (artifact.importance # "Critical" /\ cls_usage # "High"
              /\ (cls_usage = "Medium" \/ artifact.importance = "Standard"))
              => assigned_tier = "Warm"
        /\ (artifact.importance = "Low" /\ cls_usage = "Low")
              => assigned_tier = "Cold"
        /\ artifact.importance = "Standard" => assigned_tier # "Cold"

\* C7 witness: Standard importance at Low usage was classified (Warm).
C7_Witness ==
    /\ assigned_tier = "Warm"
    /\ artifact.importance = "Standard"
    /\ cls_usage = "Low"

\* The time since the last access, in ticks.
Elapsed == now - artifact.last_accessed

\* C8: for access_count >= 0, whenever more than 30 days have elapsed since
\* the last access (any duration, not only whole days), get_usage_frequency
\* returns Low, in each of the three copies.  (SpecClassify; the two
\* datetime copies drop the fraction of a day and violate it.)
C8_Over30DaysIsLow ==
    (usage_frequency # "none" /\ artifact.access_count >= 0
        /\ Elapsed > 30 * TicksPerDay)
    => usage_frequency = "Low"

\* C9: for access_count >= 0 the evaluation returns one of High, Medium and
\* Low, and when no more than 30 days have elapsed: High for more than 10
\* accesses, Medium for 1 to 10, Low for 0; with the classifier, (Critical,
\* 15 accesses, 5 days) is High and Hot, (Standard, 3, 10 days) Medium and
\* Warm, (Low, 0, 60 days) Low and Cold.  (SpecClassify)
C9_CountRules ==
    /\ (usage_frequency # "none" /\ artifact.access_count >= 0) =>
          /\ usage_frequency \in UsageFrequency
          /\ Elapsed <= 30 * TicksPerDay =>
                /\ artifact.access_count > 10 => usage_frequency = "High"
                /\ (1 <= artifact.access_count /\ artifact.access_count <= 10)
                      => usage_frequency = "Medium"
                /\ artifact.access_count = 0 => usage_frequency = "Low"
    /\ (assigned_tier # "none" /\ artifact.importance = "Critical"
          /\ artifact.access_count = 15 /\ Elapsed = 5 * TicksPerDay)
          => (cls_usage = "High" /\ assigned_tier = "Hot")
    /\ (assigned_tier # "none" /\ artifact.importance = "Standard"
          /\ artifact.access_count = 3 /\ Elapsed = 10 * TicksPerDay)
          => (cls_usage = "Medium" /\ assigned_tier = "Warm")
    /\ (assigned_tier # "none" /\ artifact.importance = "Low"
          /\ artifact.access_count = 0 /\ Elapsed = 60 * TicksPerDay)
          => (cls_usage = "Low" /\ assigned_tier = "Cold")

\* C9 witness: scenario B evaluated and classified.
C9_Witness ==
    /\ artifact.importance = "Standard"
    /\ artifact.access_count = 3
    /\ Elapsed = 10 * TicksPerDay
    /\ usage_frequency = "Medium"
    /\ cls_usage = "Medium"
    /\ assigned_tier = "Warm"

\* C10: evaluating an artifact whose access_count is negative yields an
\* InvalidInput error and never a UsageFrequency value.  (SpecClassify; the
\* code has no such check and returns Low.)
C10_NegativeRejected ==
    (usage_frequency # "none" /\ artifact.access_count < 0)
    => usage_frequency = "InvalidInput"

\* A step of the sequential store is one add_artifact call of a Video on
\* tier t that starts with capacity 100 and usage 75.
ScenarioD(t) ==
    /\ capacities[t] = Units(100)
    /\ usage[t] = 2 * 75
    /\ last_tier' = t
    /\ last_type' = "Video"

\* C11 as stated: placing a Video (size 5) into a tier with capacity 100 and
\* usage 75 triggers a scale before the commit check, so after the call the
\* capacity is 150 and the usage 80.  (SpecStore; violated: 80 > 80.0 is
\* false, no scale happens.)
C11_ScenarioD ==
    [][\A t \in StorageTier :
          ScenarioD(t) =>
              /\ adjusted' = 1
              /\ capacities'[t] = Units(150)
              /\ usage'[t] = 2 * 80]_vars

\* C11 amended: placing a Video (size 5) into a tier with capacity 100 and
\* usage 75 does not trigger a scale, because 75 + 5 = 80 is not strictly
\* above the threshold 0.8 * 100 = 80; the call returns True and afterwards
\* the capacity is still 100 and the usage 80.  (SpecStore)
C11_ScenarioDNoScale ==
    [][\A t \in StorageTier :
          ScenarioD(t) =>
              /\ adjusted' = 0
              /\ ret' = "True"
              /\ capacities'[t] = Units(100)
              /\ usage'[t] = 2 * 80]_vars

\* C11 witness: a Video was just placed on Hot, bringing the usage to 80
\* (from 75) while the capacity is still 100.
C11_Witness ==
    /\ last_type = "Video"
    /\ last_tier = "Hot"
    /\ ret = "True"
    /\ adjusted = 0
    /\ usage["Hot"] = 2 * 80
    /\ capacities["Hot"] = Units(100)

\* cap2 is exactly one and a half times cap1.
OneAndAHalfTimes(cap1, cap2) ==
    2 * cap2.n * Pow2(cap1.e) = 3 * cap1.n * Pow2(cap2.e)

\* C12: one add_artifact call on tier T calls adjust_resources(T) exactly
\* once if usage[T] + size > 0.8 * capacities[T] at entry and not at all
\* otherwise; the scaling is unconditional once the threshold trips (also when
\* the artifact would have fit the unscaled capacity), and the admission check
\* of the call compares against the capacity after the scaling.  (SpecStore)
C12_ScaleOncePerCall ==
    [][\A t \in StorageTier :
          last_tier' = t =>
              LET size    == artifact_sizes(last_type')
                  tripped == 5 * (usage[t] + size) * Pow2(capacities[t].e)
                                > 8 * capacities[t].n
              IN  /\ adjusted' = IF tripped THEN 1 ELSE 0
                  /\ tripped => OneAndAHalfTimes(capacities[t], capacities'[t])
                  /\ ~tripped => capacities'[t] = capacities[t]
                  /\ ret' = "True" <=>
                        (usage[t] + size) * Pow2(capacities'[t].e)
                            <= 2 * capacities'[t].n]_vars

\* C12 witness: a call scaled the capacity although its artifact fits the
\* capacity as it was before the scaling (two thirds of the capacity now).
C12_Witness ==
    /\ adjusted = 1
    /\ ret = "True"
    /\ last_tier \in StorageTier
    /\ 3 * usage[last_tier] * Pow2(capacities[last_tier].e)
          <= 4 * capacities[last_tier].n

\* cap1 <= cap2 for two capacities.
CapLe(cap1, cap2) == cap1.n * Pow2(cap2.e) <= cap2.n * Pow2(cap1.e)

\* C13: each adjust_resources(tier) call sets capacities[tier] to exactly 1.5
\* times its prior value, and no step of any sequence of operations decreases
\* capacities[tier]: a capacity changes only by such a scaling.  (SpecStore)
C13_ScaleByOneAndAHalf ==
    [][\A t \in StorageTier :
          /\ CapLe(capacities[t], capacities'[t])
          /\ (adjusted' = 1 /\ last_tier' = t)
                => OneAndAHalfTimes(capacities[t], capacities'[t])
          /\ capacities'[t] # capacities[t]
                => (/\ adjusted' = 1
                    /\ last_tier' = t
                    /\ OneAndAHalfTimes(capacities[t], capacities'[t]))]_vars

\* C13 witness: the Hot capacity of the shipped configuration has been scaled
\* twice, 100 -> 150 -> 225.
C13_Witness ==
    /\ config = "shipped"
    /\ adjusted = 1
    /\ last_tier = "Hot"
    /\ capacities["Hot"] = Units(225)

\* C14 as stated: whenever add_artifact returns False, the state is the same
\* as before the call: usage and capacity of every tier are unchanged.
\* (SpecStore; violated: a call that fails has tripped the threshold first and
\* has scaled the capacity of its tier.)
C14_FailureLeavesState ==
    [][ret' = "False" => (usage' = usage /\ capacities' = capacities)]_vars

\* C14 amended: whenever add_artifact returns False, the usage of every tier
\* and the capacity of every other tier are unchanged, while the capacity of
\* the call's own tier has been scaled to 1.5 times its value (the threshold
\* test precedes the admission test, and a call that does not fit is always
\* above the threshold).  (SpecStore)
C14_FailureKeepsUsage ==
    [][(ret' = "False" /\ last_tier' \in StorageTier) =>
          /\ usage' = usage
          /\ \A t \in StorageTier \ {last_tier'} : capacities'[t] = capacities[t]
          /\ adjusted' = 1
          /\ OneAndAHalfTimes(capacities[last_tier'], capacities'[last_tier'])]_vars

\* C14 witness: a Video on the Hot tier of the small configuration was
\* refused; the capacity has gone from 2 to 3 and nothing is stored.
C14_Witness ==
    /\ config = "small"
    /\ ret = "False"
    /\ last_tier = "Hot"
    /\ last_type = "Video"
    /\ usage["Hot"] = 0
    /\ capacities["Hot"] = scaled_capacity(initial_capacities("small")["Hot"])

\* C15 as stated: calling classify_and_assign twice on the same artifact
\* yields the same tier both times, whatever happens between the two calls.
\* (SpecClassify; violated: the call reads the clock, and an artifact
\* classified within 30 days of its last access is classified differently
\* once the window has passed.)
C15_Idempotent ==
    (first_tier # "none" /\ assigned_tier # "none") => assigned_tier = first_tier

\* Whether a call made at the given age is outside the recency window: the
\* datetime copies count whole days, the timestamp copy the exact time.
OutsideWindow(copy, age) ==
    IF copy = "retrieval" THEN age # "within30d" ELSE age = "beyond31d"

\* C15 amended: calling classify_and_assign twice on the same artifact yields
\* the same tier both times provided both calls are made on the same side of
\* the 30-day recency window (more than 30 whole days since the last access
\* in the two datetime copies, more than 30 days in the timestamp copy); the
\* result depends on the clock and on nothing else that changes between the
\* calls.  (SpecClassify)
C15_SameWindowSameTier ==
    (/\ first_tier # "none"
     /\ assigned_tier # "none"
     /\ OutsideWindow(artifact.copy, first_age)
          = OutsideWindow(artifact.copy, AgeOf(Elapsed)))
    => assigned_tier = first_tier

\* C15 witness: an artifact of Low importance with 15 accesses was classified
\* Hot within 30 days of its last access and Hot again during the 31st day,
\* which the datetime copy still counts as 30 days.
C15_Witness ==
    /\ artifact.copy = "classification"
    /\ artifact.importance = "Low"
    /\ artifact.access_count = 15
    /\ first_age = "within30d"
    /\ AgeOf(Elapsed) = "in31stday"
    /\ first_tier = "Hot"
    /\ assigned_tier = "Hot"

\* The decision table as written, first matching row first:
\* (Critical, any) -> Hot; (any, High) -> Hot; (Standard, Medium) -> Warm;
\* (neither Standard nor Critical, Medium) -> Warm; otherwise -> Cold.
TableAsWritten(importance, u) ==
    IF importance = "Critical" THEN "Hot"
    ELSE IF u = "High" THEN "Hot"
    ELSE IF importance = "Standard" /\ u = "Medium" THEN "Warm"
    ELSE IF importance \notin {"Standard", "Critical"} /\ u = "Medium" THEN "Warm"
    ELSE "Cold"

\* The table with the two Medium rows merged and the row (Standard, any) ->
\* Warm added before the last one.
TableAmended(importance, u) ==
    IF importance = "Critical" THEN "Hot"
    ELSE IF u = "High" THEN "Hot"
    ELSE IF u = "Medium" THEN "Warm"
    ELSE IF importance = "Standard" THEN "Warm"
    ELSE "Cold"

\* C16 as stated: the tier classify_and_assign returns is that of the first
\* matching row of the decision table (Critical, any) -> Hot; (any, High) ->
\* Hot; (Standard, Medium) -> Warm; (neither Standard nor Critical, Medium)
\* -> Warm; otherwise -> Cold.  (SpecClassify; violated at Standard
\* importance and Low usage, which the code places in Warm.)
C16_DecisionTable ==
    assigned_tier # "none"
    => assigned_tier = TableAsWritten(artifact.importance, cls_usage)

\* C16 amended: the tier classify_and_assign returns is that of the first
\* matching row of (Critical, any) -> Hot; (any, High) -> Hot; (any, Medium)
\* -> Warm; (Standard, any) -> Warm; otherwise -> Cold.  (SpecClassify)
C16_DecisionTableAmended ==
    assigned_tier # "none"
    => assigned_tier = TableAmended(artifact.importance, cls_usage)

\* C16 witness: the row the written table lacks: Standard importance, no
\* access at all, classified within the window as Low usage and Warm.
C16_Witness ==
    /\ artifact.importance = "Standard"
    /\ artifact.access_count = 0
    /\ Elapsed <= 30 * TicksPerDay
    /\ cls_usage = "Low"
    /\ assigned_tier = "Warm"

Finishes(t) == pc[t] \notin Finished /\ pc'[t] \in Finished

\* C18 as stated: after any retrieve_artifact call has finished (completed or
\* rejected), current_requests equals the value it had immediately before
\* that call began.  (SpecRetrieve; violated: calls overlap, and another call
\* admitted during the sleep is still counted when this one finishes.)
C18_CounterRestored ==
    [][\A t \in Tasks :
          Finishes(t) => current_requests' = entry_requests'[t]]_vars

\* C18 amended: when a retrieve_artifact call finishes (completed, failed,
\* cancelled or rejected), current_requests equals the value it had
\* immediately before that call began plus the net change made in the
\* meantime by other calls (their admissions minus their releases); the call
\* itself leaves the counter as it found it, and a rejected call never
\* changes it.  (SpecRetrieve)
C18_OwnEffectIsZero ==
    [][\A t \in Tasks :
          /\ Finishes(t) =>
                current_requests' = entry_requests'[t] + others_net'[t]
          /\ (Finishes(t) /\ pc'[t] = "overloaded") =>
                current_requests' = current_requests]_vars

\* C18 witness: task 1 began at 0 and has returned; task 2, admitted during
\* task 1's sleep, is still in flight, so the counter is 1.
C18_Witness ==
    /\ pc[1] = "returned"
    /\ entry_requests[1] = 0
    /\ others_net[1] = 1
    /\ pc[2] = "sleeping"
    /\ current_requests = 1

\* The retrievals that have passed admission and incremented the counter but
\* have not yet decremented it.
InFlight == {t \in Tasks : increments[t] = 1 /\ decrements[t] = 0}

\* C19: current_requests equals the number of retrievals that have passed
\* admission and incremented but not yet decremented; no increment or
\* decrement is lost or duplicated (each call increments at most once and
\* decrements at most once, and those in flight are the suspended ones).
\* (SpecRetrieve)
C19_CounterIsInFlight ==
    /\ current_requests = Cardinality(InFlight)
    /\ InFlight = {t \in Tasks : pc[t] = "sleeping"}
    /\ \A t \in Tasks :
          /\ increments[t] \in {0, 1}
          /\ decrements[t] \in {0, 1}
          /\ decrements[t] <= increments[t]

\* C19 witness: the backend is full (two retrievals in flight) after a first
\* retrieval has been admitted and released.
C19_Witness ==
    /\ Cardinality(InFlight) = MaxConcurrent
    /\ current_requests = MaxConcurrent
    /\ \E t \in Tasks : increments[t] = 1 /\ decrements[t] = 1

TiersInProgress == {plocal[p].tier : p \in {q \in Producers : ppc[q] # "idle"}}

\* C21: an add_artifact call on tier T leaves the capacity and the usage of
\* every other tier unchanged, whether it succeeds, fails or scales, and no
\* add_artifact call ever decreases the usage of any tier.  (SpecStoreConc;
\* the frame part holds, but with unsynchronised producers the store of line
\* 92 writes a stale sum and can lower the usage.)
C21_FrameAndNoDecrease ==
    [][\A t \in StorageTier :
          /\ (usage'[t] # usage[t] \/ capacities'[t] # capacities[t])
                => t \in TiersInProgress
          /\ usage'[t] >= usage[t]]_vars

\* C21 for calls made one after the other, as run_test makes them: the call
\* on last_tier' changes no other tier, and no usage decreases.  (SpecStore)
C21_SequentialFrame ==
    [][\A t \in StorageTier :
          /\ t # last_tier' => (/\ usage'[t] = usage[t]
                                /\ capacities'[t] = capacities[t])
          /\ usage'[t] >= usage[t]]_vars

=============================================================================
